---- MODULE Spec2Model ----
(***************************************************************************)
(* Model of the memory-upsert Lambda (infrastructure/lambda/memory_upsert/  *)
(* handler.py): the handler, the credential cache (get_db_config), the pool *)
(* manager (get_db_pool) and the acquisition layer (get_db_connection),     *)
(* together with the psycopg2 SimpleConnectionPool they drive and the       *)
(* ledger table they write.                                                 *)
(*                                                                          *)
(* Each handler thread is a small program counter machine.  A step that     *)
(* reads or writes process-wide state (db_pool, db_config_cache, a pool, a  *)
(* connection, the database) is one action; statements that touch only      *)
(* locals are folded into the neighbouring action.  Calls into the pool     *)
(* (getconn / putconn / closeall) are atomic, which is what the design      *)
(* assumes of the pool implementation.                                      *)
(***************************************************************************)
EXTENDS Integers, Sequences, FiniteSets, TLC

----------------------------------------------------------------------------
\* Bounds of the model.

\* Invocations a specification lets the process serve.
MaxInvocations == 2
\* Invocations of the concurrent, fault-free specification.
MaxConcInvocations == 3
\* Clock advances.
MaxTicks == 1
\* Outages and recoveries of the secret store and the database, together.
MaxFaults == 2
\* Rotations of the secret.
MaxRotations == 1
\* Invocations of the migration handler.
MaxMigrations == 2
\* Statements of a migration the database rejects, and malformed secrets.
MaxRejections == 2
\* Rows the registry holds.
MaxRows == 1
\* Invocations one thread serves one after the other on healthy services:
\* two lifetimes of a pool of MaxConn connections, and one more.
MaxSeqInvocations == 11
\* Invocations of the specification in which the last one may overlap the one
\* before it: one lifetime of a pool, and one more.
MaxBusyInvocations == 6

----------------------------------------------------------------------------
\* Program constants.

DB_CONFIG_CACHE_TTL == 900
MinConn == 1
MaxConn == 5
\* range(1, 4) in get_db_config and in get_db_connection
FetchAttempts == 3
AcquireAttempts == 3
SessionTtlHours == 24
PersistentTtlHours == 168
SecondsPerHour == 3600

Procs == {1, 2}

\* Python's None, for string-valued locals.
NONE == "None"

----------------------------------------------------------------------------
\* Requests.  A JSON object or a header map is a function from the keys that
\* are present to their values, so that dict.get(key, default) is modelled
\* as written.  An optional value is a sequence of length 0 or 1.

Opt(k, o) == IF o = <<>> THEN <<>> ELSE (k :> o[1])

DictGet(d, k, default) == IF k \in DOMAIN d THEN d[k] ELSE default

\* How event['body'] arrives: the key missing, JSON null, a string that is
\* not JSON, a string holding a JSON array, or a JSON object.
BodyKinds == {"missing", "null", "malformed", "array", "object"}

ContentValues == {<<>>, <<"">>, <<"hello">>}
LayerValues == {<<>>, <<"session">>, <<"persistent">>}
TtlValues == {<<>>, <<1>>}
ModeValues == {<<>>, <<"off">>, <<"session-only">>}
UpperModeValues == {<<>>, <<"on">>}
UserValues == {<<>>, <<"u1">>}
TenantValues == {<<>>, <<"t1">>}

ObjectBodies ==
    { Opt("content", c) @@ Opt("layer", l) @@ Opt("ttl_hours", t) :
        c \in ContentValues, l \in LayerValues, t \in TtlValues }

ModeHeaders ==
    { Opt("x-logline-memory", m) @@ Opt("X-LogLine-Memory", M) :
        m \in ModeValues, M \in UpperModeValues }

IdentityHeaders ==
    { Opt("x-user-id", u) @@ Opt("x-tenant-id", t) : u \in UserValues, t \in TenantValues }

\* Every body with every capability flag, sent anonymously; and one plain
\* request sent under every identity.
ShapeRequests ==
    { [body |-> "object", fields |-> f, headers |-> h] : f \in ObjectBodies, h \in ModeHeaders }
    \cup
    { [body |-> k, fields |-> <<>>, headers |-> h] : k \in BodyKinds \ {"object"}, h \in ModeHeaders }

PlainRequest(content, h) ==
    [body |-> "object", fields |-> ("content" :> content),
     headers |-> ("X-LogLine-Memory" :> "on") @@ h]

IdentityRequests == { PlainRequest("hello", h) : h \in IdentityHeaders }

Requests == ShapeRequests \cup IdentityRequests

----------------------------------------------------------------------------
\* handler, lines 22-51: the statements that run before any shared state is
\* touched.

\* Fault injection for C4: the flag defaulting to 'on'.
MemoryModeDefaultOn(h) ==
    DictGet(h, "x-logline-memory", DictGet(h, "X-LogLine-Memory", "on"))

\* line 31
MemoryMode(h) ==
    DictGet(h, "x-logline-memory", DictGet(h, "X-LogLine-Memory", "off"))

\* line 42
LayerOf(f, mode) ==
    DictGet(f, "layer", IF mode = "session-only" THEN "session" ELSE "persistent")

\* Fault injection for C7: the two default lifetimes exchanged.
TtlHoursOfSwapped(f, layer) ==
    DictGet(f, "ttl_hours", IF layer = "session" THEN PersistentTtlHours ELSE SessionTtlHours)

\* line 43
TtlHoursOf(f, layer) ==
    DictGet(f, "ttl_hours", IF layer = "session" THEN SessionTtlHours ELSE PersistentTtlHours)

\* line 57
UserId(h) == DictGet(h, "x-user-id", DictGet(h, "X-User-Id", "anonymous"))

\* line 58
TenantId(h) == DictGet(h, "x-tenant-id", DictGet(h, "X-Tenant-Id", NONE))

\* Python truthiness of an optional string ("if not content", "if tenant_id").
Truthy(s) == s # NONE /\ s # ""

\* The except clauses of handler, lines 109-130: psycopg2.OperationalError is
\* answered 503, every other exception 500.
StatusFor(exc) == IF exc = "OperationalError" THEN 503 ELSE 500

\* Lines 25-51.  The result carries the locals the code has assigned when it
\* leaves the block: status 0 means the handler goes on to get_db_connection.
HandlerEntry(req) ==
    LET h    == req.headers
        mode == MemoryMode(h)
        f    == req.fields
        lay  == LayerOf(f, mode)
        base == [status |-> 0, error |-> NONE, memory_mode |-> NONE,
                 content |-> NONE, layer |-> NONE, ttl_hours |-> 0]
    IN  IF req.body = "malformed"
        \* json.loads raises (line 27)
        THEN [base EXCEPT !.status = StatusFor("JSONDecodeError"), !.error = "JSONDecodeError"]
        ELSE IF mode = "off"
        THEN [base EXCEPT !.status = 403, !.memory_mode = mode]
        ELSE IF req.body \in {"null", "array"}
        \* body.get on None or on a list (line 40)
        THEN [base EXCEPT !.status = StatusFor("AttributeError"), !.error = "AttributeError",
                          !.memory_mode = mode]
        ELSE LET full == [base EXCEPT !.memory_mode = mode,
                                      !.content = DictGet(f, "content", NONE),
                                      !.layer = lay,
                                      !.ttl_hours = TtlHoursOf(f, lay)]
             IN  IF ~Truthy(full.content)
                 THEN [full EXCEPT !.status = 400]
                 ELSE full

\* The body of the response, from the locals of the invocation that has
\* reached its return (lines 34-37, 48-51, 100-107, 109-130), under the
\* deployment label env.  The name of an exception stands for its text.
ResponseBody(L, env) ==
    CASE L.status = 201 ->
            ("id" :> L.memory_id) @@ ("created_at" :> L.created_at) @@ ("ttl_at" :> L.ttl_at)
      [] L.status = 403 -> ("error" :> "Memory is disabled")
      [] L.status = 400 -> ("error" :> "content is required")
      [] L.status = 503 ->
            ("error" :> "Service temporarily unavailable")
                @@ ("message" :> "Database connection failed")
      [] L.status = 500 ->
            ("error" :> "Memory upsert failed")
                @@ ("message" :> IF env # "production" THEN L.error
                                 ELSE "Internal server error")

----------------------------------------------------------------------------
\* psycopg2.pool.SimpleConnectionPool, as the handler uses it.  A pool is
\* [idle, used, closed]: the connections waiting in the pool, the ones
\* checked out, and whether closeall has run.  A connection is
\* [pool, state, closed_by, user, tenant, pending]: user and tenant are the
\* session settings app.user_id and app.tenant_id, pending the rows of the
\* open transaction.

NewConn(pid) ==
    [pool |-> pid, state |-> "open", closed_by |-> NONE,
     user |-> NONE, tenant |-> NONE, pending |-> {}]

CloseConn(c, by) ==
    IF c.state = "open"
    THEN [c EXCEPT !.state = "closed", !.closed_by = by, !.pending = {}]
    ELSE c

PoolFail(exc, P, C) == [ok |-> FALSE, exc |-> exc, conn |-> 0, pools |-> P, conns |-> C]

\* pool.getconn(), called at lines 186 and 226.  pid = 0 is a call on None.
PoolGetConn(pid, P, C, up) ==
    IF pid = 0 THEN PoolFail("AttributeError", P, C)
    ELSE IF P[pid].closed THEN PoolFail("PoolError", P, C)
    ELSE IF P[pid].idle # {}
    THEN LET c == CHOOSE x \in P[pid].idle : TRUE
         IN  [ok |-> TRUE, exc |-> NONE, conn |-> c,
              pools |-> [P EXCEPT ![pid].idle = @ \ {c}, ![pid].used = @ \cup {c}],
              conns |-> C]
    ELSE IF Cardinality(P[pid].used) = MaxConn THEN PoolFail("PoolError", P, C)
    ELSE IF ~up THEN PoolFail("OperationalError", P, C)
    ELSE LET c == Len(C) + 1
         IN  [ok |-> TRUE, exc |-> NONE, conn |-> c,
              pools |-> [P EXCEPT ![pid].used = @ \cup {c}],
              conns |-> Append(C, NewConn(pid))]

\* Fault injection for C18: the connection put back but still counted as
\* checked out.
PoolPutConnStillUsed(pid, c, P, C) ==
    IF pid = 0 THEN PoolFail("AttributeError", P, C)
    ELSE IF P[pid].closed THEN PoolFail("PoolError", P, C)
    ELSE IF c \notin P[pid].used THEN PoolFail("PoolError", P, C)
    ELSE [ok |-> TRUE, exc |-> NONE, conn |-> c,
          pools |-> [P EXCEPT ![pid].idle = IF C[c].state = "open" THEN @ \cup {c} ELSE @],
          conns |-> [C EXCEPT ![c].pending = {}]]

\* pool.putconn(conn), called at line 187.
PoolPutConn(pid, c, P, C) ==
    IF pid = 0 THEN PoolFail("AttributeError", P, C)
    ELSE IF P[pid].closed THEN PoolFail("PoolError", P, C)
    ELSE IF c \notin P[pid].used THEN PoolFail("PoolError", P, C)
    ELSE IF Cardinality(P[pid].idle) < MinConn
    THEN [ok |-> TRUE, exc |-> NONE, conn |-> c,
          pools |-> [P EXCEPT ![pid].used = @ \ {c},
                              ![pid].idle = IF C[c].state = "open" THEN @ \cup {c} ELSE @],
          conns |-> [C EXCEPT ![c].pending = {}]]
    ELSE [ok |-> TRUE, exc |-> NONE, conn |-> c,
          pools |-> [P EXCEPT ![pid].used = @ \ {c}],
          conns |-> [C EXCEPT ![c] = CloseConn(@, "pool")]]

\* pool.closeall(), called at line 192.
PoolCloseAll(pid, P, C) ==
    IF pid = 0 THEN PoolFail("AttributeError", P, C)
    ELSE IF P[pid].closed THEN PoolFail("PoolError", P, C)
    ELSE [ok |-> TRUE, exc |-> NONE, conn |-> 0,
          pools |-> [P EXCEPT ![pid].closed = TRUE],
          conns |-> [c \in DOMAIN C |->
                        IF c \in P[pid].idle \cup P[pid].used
                        THEN CloseConn(C[c], "pool") ELSE C[c]]]

\* What a statement or a commit on connection c raises: psycopg2 raises
\* InterfaceError on a closed connection, OperationalError when the server
\* cannot be reached.
StmtError(c, C, up) ==
    IF C[c].state # "open" THEN "InterfaceError"
    ELSE IF ~up THEN "OperationalError"
    ELSE NONE

----------------------------------------------------------------------------
\* The ledger.

\* ur_insert_policy (db_migration/handler.py lines 199-203), evaluated against
\* the session settings of the inserting connection.
InsertAllowed(row, c) ==
    /\ row.owner_id = c.user
    /\ (row.tenant_id = NONE \/ row.tenant_id = c.tenant)

\* Fault injection for C6: the row written as a revision, not as seq 0.
MemoryRowSeqOne(L) ==
    [id |-> L.memory_id, seq |-> 1, entity_type |-> "memory", did |-> "upserted",
     status |-> "active", description |-> L.content,
     metadata |-> [layer |-> L.layer, ttl_at |-> L.ttl_at],
     owner_id |-> L.user_id, tenant_id |-> L.tenant_id, visibility |-> "private"]

\* The row of the INSERT at lines 81-94.
MemoryRow(L) ==
    [id |-> L.memory_id, seq |-> 0, entity_type |-> "memory", did |-> "upserted",
     status |-> "active", description |-> L.content,
     metadata |-> [layer |-> L.layer, ttl_at |-> L.ttl_at],
     owner_id |-> L.user_id, tenant_id |-> L.tenant_id, visibility |-> "private"]

----------------------------------------------------------------------------
\* db_migration/handler.py: the database objects the migration installs, by
\* name, and what PostgreSQL does with each cur.execute of the handler.  The
\* connection is in autocommit mode (line 86), so each execute is one
\* implicit transaction: it takes effect whole or not at all.

Schemas == {"app", "ledger"}
AccessorFunctions == {"app.current_user_id", "app.current_tenant_id"}
Policies == {"ur_select_policy", "ur_insert_policy"}

\* What step 6 adds when it succeeds.
OptionalSchema == {"vector", "ledger.memory_embeddings"}

\* Everything steps 1-5, 7 and 8 install.
CoreSchema ==
    Schemas \cup AccessorFunctions \cup Policies \cup
    {"ledger.universal_registry", "ur_indexes", "rls", "ledger.visible_timeline",
     "ledger.enforce_append_only", "ur_append_only_trigger"}

\* The executes of the with block (lines 88-277), in program order.
Executes ==
    <<"s1", "s2", "s3", "s4", "s5_enable", "s5_drop", "s5_create",
      "s6_extension", "s6_table", "s7", "s8", "s9">>

\* The step, as the comments of the handler number them, of each execute.
StepOf ==
    ("s1" :> 1) @@ ("s2" :> 2) @@ ("s3" :> 3) @@ ("s4" :> 4) @@
    ("s5_enable" :> 5) @@ ("s5_drop" :> 5) @@ ("s5_create" :> 5) @@
    ("s6_extension" :> 6) @@ ("s6_table" :> 6) @@ ("s7" :> 7) @@ ("s8" :> 8) @@ ("s9" :> 9)

\* Fault injection for C13: only the seed step inside a try block.
SwallowedSeedOnly(label) == label = "s9"

\* The executes inside a try block whose except clause logs and goes on
\* (lines 208-234 and 264-277).
Swallowed(label) == label \in {"s6_extension", "s6_table", "s9"}

\* Where the handler goes after an execute: the next one when it succeeded,
\* past the try block when its error was swallowed.
NextExecute(label, ok) ==
    CASE label = "s1" -> "s2"
      [] label = "s2" -> "s3"
      [] label = "s3" -> "s4"
      [] label = "s4" -> "s5_enable"
      [] label = "s5_enable" -> "s5_drop"
      [] label = "s5_drop" -> "s5_create"
      [] label = "s5_create" -> "s6_extension"
      [] label = "s6_extension" -> IF ok THEN "s6_table" ELSE "s7"
      [] label = "s6_table" -> "s7"
      [] label = "s7" -> "s8"
      [] label = "s8" -> "s9"
      [] label = "s9" -> "close"

\* The SQLSTATE PostgreSQL answers the execute with on a database holding the
\* objects S, NONE when it accepts it.  available: the server offers the
\* vector extension.
SqlError(label, S, available) ==
    CASE label = "s1" -> NONE
      [] label = "s2" -> IF "app" \in S THEN NONE ELSE "3F000"
      [] label = "s3" -> IF "ledger" \in S THEN NONE ELSE "3F000"
      [] label \in {"s4", "s5_enable", "s5_drop", "s7", "s8"} ->
            IF "ledger.universal_registry" \in S THEN NONE ELSE "42P01"
      [] label = "s5_create" ->
            IF "ledger.universal_registry" \notin S THEN "42P01"
            ELSE IF ~(AccessorFunctions \subseteq S) THEN "42883"
            ELSE IF Policies \cap S # {} THEN "42710"
            ELSE NONE
      [] label = "s6_extension" ->
            IF "vector" \in S \/ available THEN NONE ELSE "0A000"
      \* line 219: the foreign key names universal_registry(id), and no unique
      \* constraint covers id alone (the primary key is (id, seq), line 156)
      [] label = "s6_table" ->
            IF "ledger.memory_embeddings" \in S THEN NONE ELSE "42830"
      [] label = "s9" -> NONE

\* Fault injection for C12: only the SELECT policy created.
ApplySqlOnePolicy(label, S) ==
    CASE label = "s1" -> S \cup Schemas
      [] label = "s2" -> S \cup AccessorFunctions
      [] label = "s3" -> S \cup {"ledger.universal_registry"}
      [] label = "s4" -> S \cup {"ur_indexes"}
      [] label = "s5_enable" -> S \cup {"rls"}
      [] label = "s5_drop" -> S \ Policies
      [] label = "s5_create" -> S \cup {"ur_select_policy"}
      [] label = "s6_extension" -> S \cup {"vector"}
      [] label = "s6_table" -> S \cup {"ledger.memory_embeddings"}
      [] label = "s7" -> S \cup {"ledger.visible_timeline"}
      [] label = "s8" -> (S \ {"ur_append_only_trigger"})
                            \cup {"ledger.enforce_append_only", "ur_append_only_trigger"}
      [] label = "s9" -> S

\* The objects the database holds after it accepted the execute.
ApplySql(label, S) ==
    CASE label = "s1" -> S \cup Schemas
      [] label = "s2" -> S \cup AccessorFunctions
      [] label = "s3" -> S \cup {"ledger.universal_registry"}
      [] label = "s4" -> S \cup {"ur_indexes"}
      [] label = "s5_enable" -> S \cup {"rls"}
      [] label = "s5_drop" -> S \ Policies
      [] label = "s5_create" -> S \cup Policies
      [] label = "s6_extension" -> S \cup {"vector"}
      [] label = "s6_table" -> S \cup {"ledger.memory_embeddings"}
      [] label = "s7" -> S \cup {"ledger.visible_timeline"}
      [] label = "s8" -> (S \ {"ur_append_only_trigger"})
                            \cup {"ledger.enforce_append_only", "ur_append_only_trigger"}
      [] label = "s9" -> S

\* The deployment labels of os.environ.get('ENVIRONMENT'); NONE is unset.
Environments == {"production", "dev", NONE}

\* create_error_response, lines 332-345: details, when truthy, are written
\* over the message and the timestamp.
CreateErrorResponse(status_code, message, details, now) ==
    [statusCode |-> status_code,
     body |-> details @@ ("error" :> message) @@ ("timestamp" :> now)]

\* The response of the except clauses (lines 57-61 and 301-318) to a failure
\* f = [exc, pgcode, text] under deployment label env.
MigrationFailure(f, env, now) ==
    IF f.exc = "SecretError"
    THEN CreateErrorResponse(500, "Configuration error", <<>>, now)
    ELSE IF f.exc = "psycopg2.Error"
    THEN CreateErrorResponse(500, "Database migration failed",
                             "error_code" :> f.pgcode, now)
    ELSE CreateErrorResponse(500, "Migration failed",
                             "error" :> (IF env # "production" THEN f.text ELSE NONE), now)

NoFailure == [exc |-> NONE, pgcode |-> NONE, text |-> NONE, at |-> NONE]

\* The locals of the migration handler.  log is the executes the invocation
\* has issued, failed those the database answered with an error; run and
\* succeeded count the invocations begun and the 200 responses, rejections
\* the statements and secrets found unusable so far.
IdleMigration ==
    [pc |-> "idle", run |-> 0, succeeded |-> 0, rejections |-> 0, conn |-> "none",
     log |-> <<>>, failed |-> {}, status |-> 0, failure |-> NoFailure]

----------------------------------------------------------------------------
\* ledger.universal_registry as the migration leaves it: what PostgreSQL
\* does with a statement of a session [user, tenant, rls] on a database
\* holding the objects S and the rows R.  user and tenant are the session
\* settings app.user_id and app.tenant_id, NONE when unset (current_setting
\* with missing_ok, lines 101 and 105); rls is FALSE for a role that row
\* security does not apply to, as the owner of the table.

Users == {NONE, "u1", "u2"}
Tenants == {NONE, "t1", "t2"}
Visibilities == {"private", "tenant", "public"}

Sessions == [user : Users, tenant : Tenants, rls : BOOLEAN]

\* Row security applies to the statement (line 179).
RowSecurity(sess, S) == sess.rls /\ "rls" \in S

\* Fault injection for C16: the tenant clause open to private rows.
SelectAllowedAnyVisibility(row, sess) ==
    \/ row.owner_id = sess.user
    \/ row.visibility = "public"
    \/ row.tenant_id = sess.tenant

\* ur_select_policy, lines 191-197.  IS NOT DISTINCT FROM is equality with
\* NULL equal to NULL.
SelectAllowed(row, sess) ==
    \/ row.owner_id = sess.user
    \/ row.visibility = "public"
    \/ (row.tenant_id = sess.tenant /\ row.visibility \in {"tenant", "public"})

\* Fault injection for C15: the trigger created BEFORE UPDATE only.
TriggerRejectsUpdateOnly(op, S) ==
    "ur_append_only_trigger" \in S /\ op = "UPDATE"

\* ur_append_only_trigger, lines 257-259: BEFORE UPDATE OR DELETE, FOR EACH
\* ROW, and the function raises.
TriggerRejects(op, S) ==
    "ur_append_only_trigger" \in S /\ op \in {"UPDATE", "DELETE"}

\* A row of the registry written by an SQL client.
ClientRow(id, shape) ==
    [id |-> id, seq |-> 0, entity_type |-> "memory", did |-> "upserted",
     status |-> "active", description |-> shape.description,
     metadata |-> [layer |-> "persistent", ttl_at |-> 0],
     owner_id |-> shape.owner_id, tenant_id |-> shape.tenant_id,
     visibility |-> shape.visibility]

\* What a statement did: the id it named (0 for none), the SQLSTATE it
\* raised, the rows of the table before and after it, the rows it wrote or
\* removed, the rows it returned.
Outcome(op, id, sess, raised, before, after, touched, returned) ==
    [op |-> op, id |-> id, sess |-> sess, raised |-> raised, before |-> before,
     after |-> after, touched |-> touched, returned |-> returned]

\* SELECT * FROM ledger.universal_registry.
SqlSelect(sess, S, R) ==
    IF "ledger.universal_registry" \notin S
    THEN Outcome("SELECT", 0, sess, "42P01", R, R, {}, {})
    ELSE IF ~RowSecurity(sess, S)
    THEN Outcome("SELECT", 0, sess, NONE, R, R, {}, R)
    ELSE Outcome("SELECT", 0, sess, NONE, R, R, {},
                 { r \in R : "ur_select_policy" \in S /\ SelectAllowed(r, sess) })

\* INSERT of one row: the primary key (line 156), the check on visibility
\* (line 157) and, under row security, ur_insert_policy.
SqlInsert(row, sess, S, R) ==
    IF "ledger.universal_registry" \notin S
    THEN Outcome("INSERT", row.id, sess, "42P01", R, R, {}, {})
    ELSE IF row.visibility \notin Visibilities \/ row.seq < 0
    THEN Outcome("INSERT", row.id, sess, "23514", R, R, {}, {})
    ELSE IF \E r \in R : r.id = row.id /\ r.seq = row.seq
    THEN Outcome("INSERT", row.id, sess, "23505", R, R, {}, {})
    ELSE IF RowSecurity(sess, S) /\ ~("ur_insert_policy" \in S /\ InsertAllowed(row, sess))
    THEN Outcome("INSERT", row.id, sess, "42501", R, R, {}, {})
    ELSE Outcome("INSERT", row.id, sess, NONE, R, R \cup {row}, {row}, {})

\* The rows an UPDATE or a DELETE of the rows with this id reaches: under
\* row security none, as no policy is written for either command.
Reached(id, sess, S, R) ==
    IF RowSecurity(sess, S) THEN {} ELSE { r \in R : r.id = id }

\* UPDATE ... SET description = value WHERE id = id.
SqlUpdate(id, value, sess, S, R) ==
    LET hit == Reached(id, sess, S, R)
    IN  IF "ledger.universal_registry" \notin S
        THEN Outcome("UPDATE", id, sess, "42P01", R, R, {}, {})
        ELSE IF hit # {} /\ TriggerRejects("UPDATE", S)
        THEN Outcome("UPDATE", id, sess, "P0001", R, R, {}, {})
        ELSE Outcome("UPDATE", id, sess, NONE, R,
                     (R \ hit) \cup { [r EXCEPT !.description = value] : r \in hit },
                     hit, {})

\* DELETE ... WHERE id = id.
SqlDelete(id, sess, S, R) ==
    LET hit == Reached(id, sess, S, R)
    IN  IF "ledger.universal_registry" \notin S
        THEN Outcome("DELETE", id, sess, "42P01", R, R, {}, {})
        ELSE IF hit # {} /\ TriggerRejects("DELETE", S)
        THEN Outcome("DELETE", id, sess, "P0001", R, R, {}, {})
        ELSE Outcome("DELETE", id, sess, NONE, R, R \ hit, hit, {})

NoStatement ==
    Outcome("none", 0, [user |-> NONE, tenant |-> NONE, rls |-> FALSE], NONE, {}, {}, {}, {})

----------------------------------------------------------------------------
\* State.

VARIABLES
    th,               \* per handler thread: program counter and locals
    db_pool,          \* the global db_pool: 0 is None, else an index of pools
    db_config_cache,  \* the global db_config_cache: config 0 is None
    pools,            \* every SimpleConnectionPool built so far
    conns,            \* every connection opened so far
    rows,             \* committed rows of ledger.universal_registry
    clock,            \* time.time() / datetime.utcnow(), in seconds
    secretUp,         \* whether secrets.get_secret_value succeeds
    dbUp,             \* whether the database accepts connections and statements
    secretVersion,    \* the secret the store currently holds
    nextId,           \* source of uuid4 values
    started,          \* invocations begun
    ticks, faults, rotations,
    schema,           \* the objects the database holds, by name
    mig,              \* the migration handler: program counter and locals
    reports,          \* the failures the migration handler has reported
    stmt              \* the last statement of an SQL client and its outcome

vars == <<th, db_pool, db_config_cache, pools, conns, rows, clock, secretUp, dbUp,
          secretVersion, nextId, started, ticks, faults, rotations,
          schema, mig, reports, stmt>>

\* The database and the migration handler, as the memory handler sees them.
dbVars == <<schema, mig, reports, stmt>>

procVars == <<th, db_pool, db_config_cache, pools, conns, rows, nextId, started>>
envVars == <<clock, secretUp, dbUp, secretVersion, ticks, faults, rotations, dbVars>>

\* The state of the memory handler's process, but for the registry.
upsertVars == <<th, db_pool, db_config_cache, pools, conns, nextId, started>>

\* An exception of the secret store or of the pool, told apart by the pass of
\* the retry loop that caught it.
NoError == [exc |-> NONE, attempt |-> 0]

NoRequest == [body |-> "missing", fields |-> <<>>, headers |-> <<>>]

\* The locals of one invocation.  fetches .. stmts count what the invocation
\* has attempted; pre is the shared state it started from, cache_in the
\* credential cache as its call of get_db_config found it, probed how the
\* probe of get_db_pool ended.
IdleLocals ==
    [pc |-> "idle", inv |-> 0, req |-> NoRequest,
     memory_mode |-> NONE, content |-> NONE, layer |-> NONE, ttl_hours |-> 0,
     user_id |-> NONE, tenant_id |-> NONE,
     conn |-> 0, pool_obj |-> 0, probe |-> 0, attempt |-> 0, now |-> 0, config |-> 0,
     memory_id |-> 0, ttl_at |-> 0, created_at |-> 0,
     status |-> 0, error |-> NONE, last_error |-> NoError, cause |-> NoError,
     probed |-> NONE,
     cache_in |-> [config |-> 0, timestamp |-> 0],
     fetches |-> 0, fetched_at |-> 0, probes |-> 0, builds |-> 0, borrows |-> 0, stmts |-> 0,
     pre |-> [db_pool |-> 0, cache |-> [config |-> 0, timestamp |-> 0], pools |-> <<>>,
              rows |-> {}]]

\* A process that has served nothing, in front of a database holding the
\* objects S and an empty registry.
InitWith(S) ==
    /\ th = [p \in Procs |-> IdleLocals]
    /\ db_pool = 0
    /\ db_config_cache = [config |-> 0, timestamp |-> 0]
    /\ pools = <<>>
    /\ conns = <<>>
    /\ rows = {}
    /\ clock = 1
    /\ secretUp = TRUE
    /\ dbUp = TRUE
    /\ secretVersion = 1
    /\ nextId = 1
    /\ started = 0
    /\ ticks = 0
    /\ faults = 0
    /\ rotations = 0
    /\ schema = S
    /\ mig = IdleMigration
    /\ reports = {}
    /\ stmt = NoStatement

\* The memory handler is deployed in front of a migrated database.
Init == InitWith(CoreSchema)

\* An exception leaves for the except clauses (lines 109-130), then finally.
Raise(L, exc) == [L EXCEPT !.status = StatusFor(exc), !.error = exc, !.pc = "finally"]

----------------------------------------------------------------------------
\* handler, lines 17-54: the invocation arrives and runs up to the call of
\* get_db_connection.
Invoke(p, R, max) ==
    /\ th[p].pc = "idle"
    /\ started < max
    /\ \E req \in R :
         LET e == HandlerEntry(req)
         IN  th' = [th EXCEPT ![p] =
                      [IdleLocals EXCEPT
                         !.pc = IF e.status = 0 THEN "pool_check" ELSE "finally",
                         !.inv = started + 1, !.req = req,
                         !.memory_mode = e.memory_mode, !.content = e.content,
                         !.layer = e.layer, !.ttl_hours = e.ttl_hours,
                         !.status = e.status, !.error = e.error,
                         !.pre = [db_pool |-> db_pool, cache |-> db_config_cache,
                                  pools |-> pools, rows |-> rows]]]
    /\ started' = started + 1
    /\ UNCHANGED <<db_pool, db_config_cache, pools, conns, rows, nextId>>
    /\ UNCHANGED envVars

\* get_db_pool, line 183: "if db_pool".
PoolCheck(p) ==
    /\ th[p].pc = "pool_check"
    /\ th' = [th EXCEPT ![p].pc = IF db_pool # 0 THEN "probe_get" ELSE "cfg_check"]
    /\ UNCHANGED <<db_pool, db_config_cache, pools, conns, rows, nextId, started>>
    /\ UNCHANGED envVars

\* get_db_pool, line 186: the probe borrows a connection.
ProbeGet(p) ==
    /\ th[p].pc = "probe_get"
    /\ LET r == PoolGetConn(db_pool, pools, conns, dbUp)
       IN  /\ th' = [th EXCEPT ![p].pc = IF r.ok THEN "probe_put" ELSE "probe_close",
                               ![p].probe = r.conn,
                               ![p].probed = IF r.ok THEN NONE ELSE "failed",
                               ![p].probes = @ + 1]
           /\ pools' = r.pools
           /\ conns' = r.conns
    /\ UNCHANGED <<db_pool, db_config_cache, rows, nextId, started>>
    /\ UNCHANGED envVars

\* get_db_pool, line 187: the probe returns it.
ProbePut(p) ==
    /\ th[p].pc = "probe_put"
    /\ LET r == PoolPutConn(db_pool, th[p].probe, pools, conns)
       IN  /\ th' = [th EXCEPT ![p].pc = IF r.ok THEN "probe_ret" ELSE "probe_close",
                               ![p].probed = IF r.ok THEN "ok" ELSE "failed"]
           /\ pools' = r.pools
           /\ conns' = r.conns
    /\ UNCHANGED <<db_pool, db_config_cache, rows, nextId, started>>
    /\ UNCHANGED envVars

\* get_db_pool, line 188: "return db_pool", then get_db_connection line 222.
ProbeReturn(p) ==
    /\ th[p].pc = "probe_ret"
    /\ th' = [th EXCEPT ![p].pc = "acquire", ![p].pool_obj = db_pool, ![p].attempt = 1,
                        ![p].last_error = NoError]
    /\ UNCHANGED <<db_pool, db_config_cache, pools, conns, rows, nextId, started>>
    /\ UNCHANGED envVars

\* Fault injection for C21: the probe's exception not caught by get_db_pool.
ProbeReraise(p) ==
    /\ th[p].pc = "probe_close"
    /\ th' = [th EXCEPT ![p] = Raise(@, "PoolError")]
    /\ UNCHANGED <<db_pool, db_config_cache, pools, conns, rows, nextId, started>>
    /\ UNCHANGED envVars

\* get_db_pool, lines 189-194: the probe failed; closeall, its errors swallowed.
ProbeCloseAll(p) ==
    /\ th[p].pc = "probe_close"
    /\ LET r == PoolCloseAll(db_pool, pools, conns)
       IN  /\ pools' = r.pools
           /\ conns' = r.conns
    /\ th' = [th EXCEPT ![p].pc = "probe_drop"]
    /\ UNCHANGED <<db_pool, db_config_cache, rows, nextId, started>>
    /\ UNCHANGED envVars

\* get_db_pool, line 195: "db_pool = None".
ProbeDrop(p) ==
    /\ th[p].pc = "probe_drop"
    /\ db_pool' = 0
    /\ th' = [th EXCEPT ![p].pc = "cfg_check"]
    /\ UNCHANGED <<db_config_cache, pools, conns, rows, nextId, started>>
    /\ UNCHANGED envVars

----------------------------------------------------------------------------
\* get_db_config.

\* Fault injection for C9: a record aged exactly the TTL still served.
CacheValidInclusive(cache, now) ==
    cache.config # 0 /\ (now - cache.timestamp) <= DB_CONFIG_CACHE_TTL

\* line 147
CacheValid(cache, now) ==
    cache.config # 0 /\ (now - cache.timestamp) < DB_CONFIG_CACHE_TTL

\* Fault injection for C10: the record cached without its timestamp.
CacheEntryUnstamped(config, now) == [config |-> config, timestamp |-> 0]

\* The record cached at lines 160-163 by a call that read the clock as `now`
\* (line 144) and fetched `config`.
CacheEntry(config, now) == [config |-> config, timestamp |-> now]

\* lines 144-149: read the clock, return the cached configuration if it is
\* still valid, else enter the retry loop.
ConfigCheck(p) ==
    /\ th[p].pc = "cfg_check"
    /\ IF CacheValid(db_config_cache, clock)
       THEN th' = [th EXCEPT ![p].pc = "pool_new", ![p].now = clock,
                             ![p].cache_in = db_config_cache,
                             ![p].config = db_config_cache.config]
       ELSE th' = [th EXCEPT ![p].pc = "cfg_fetch", ![p].now = clock, ![p].attempt = 1,
                             ![p].cache_in = db_config_cache,
                             ![p].last_error = NoError]
    /\ UNCHANGED <<db_pool, db_config_cache, pools, conns, rows, nextId, started>>
    /\ UNCHANGED envVars

\* Fault injection for C19: a fourth pass of the loop.
FetchFailedFourth(L, e) ==
    IF L.attempt < FetchAttempts + 1
    THEN [L EXCEPT !.attempt = @ + 1, !.fetches = @ + 1, !.last_error = e]
    ELSE Raise([L EXCEPT !.fetches = @ + 1, !.last_error = e, !.cause = e], "Exception")

\* Fault injection for C11: the first error kept, not the last.
FetchFailedKeepFirst(L, e) ==
    LET kept == IF L.last_error = NoError THEN e ELSE L.last_error
    IN  IF L.attempt < FetchAttempts
        THEN [L EXCEPT !.attempt = @ + 1, !.fetches = @ + 1, !.last_error = kept]
        ELSE Raise([L EXCEPT !.fetches = @ + 1, !.last_error = kept, !.cause = kept],
                   "Exception")

\* lines 167-176: a pass of the loop caught e.  It is kept as last_error; the
\* pass sleeps and the loop goes round again, or after the third pass raises
\* an Exception whose text holds str(last_error).
FetchFailed(L, e) ==
    IF L.attempt < FetchAttempts
    THEN [L EXCEPT !.attempt = @ + 1, !.fetches = @ + 1, !.last_error = e]
    ELSE Raise([L EXCEPT !.fetches = @ + 1, !.last_error = e, !.cause = e], "Exception")

\* lines 153-176: one pass of the retry loop.  A failed pass sleeps and goes
\* round again, the third one raises.
ConfigFetch(p) ==
    /\ th[p].pc = "cfg_fetch"
    /\ IF secretUp
       THEN /\ db_config_cache' = CacheEntry(secretVersion, th[p].now)
            /\ th' = [th EXCEPT ![p].pc = "pool_new", ![p].config = secretVersion,
                                ![p].fetches = @ + 1, ![p].fetched_at = clock]
       ELSE /\ UNCHANGED db_config_cache
            /\ th' = [th EXCEPT ![p] =
                        FetchFailed(@, [exc |-> "ClientError", attempt |-> th[p].attempt])]
    /\ UNCHANGED <<db_pool, pools, conns, rows, nextId, started>>
    /\ UNCHANGED envVars

----------------------------------------------------------------------------
\* get_db_pool, lines 198-215: build the pool.

\* lines 204-213: SimpleConnectionPool(1, 5, ...) opens minconn connections,
\* so it raises psycopg2.OperationalError when the database is unreachable.
PoolNew(p) ==
    /\ th[p].pc = "pool_new"
    /\ IF dbUp
       THEN /\ pools' = Append(pools, [idle |-> {Len(conns) + 1}, used |-> {}, closed |-> FALSE])
            /\ conns' = Append(conns, NewConn(Len(pools) + 1))
            /\ db_pool' = Len(pools) + 1
            /\ th' = [th EXCEPT ![p].pc = "pool_ret", ![p].builds = @ + 1]
       ELSE /\ UNCHANGED <<pools, conns, db_pool>>
            /\ th' = [th EXCEPT ![p] = Raise([@ EXCEPT !.builds = @ + 1], "OperationalError")]
    /\ UNCHANGED <<db_config_cache, rows, nextId, started>>
    /\ UNCHANGED envVars

\* line 215: "return db_pool", then get_db_connection line 222.
PoolReturn(p) ==
    /\ th[p].pc = "pool_ret"
    /\ th' = [th EXCEPT ![p].pc = "acquire", ![p].pool_obj = db_pool, ![p].attempt = 1,
                        ![p].last_error = NoError]
    /\ UNCHANGED <<db_pool, db_config_cache, pools, conns, rows, nextId, started>>
    /\ UNCHANGED envVars

----------------------------------------------------------------------------
\* get_db_connection, lines 223-238: one pass of the retry loop; on success
\* the handler goes on to lines 54-59.
Acquire(p) ==
    /\ th[p].pc = "acquire"
    /\ LET r == PoolGetConn(th[p].pool_obj, pools, conns, dbUp)
       IN  /\ pools' = r.pools
           /\ conns' = r.conns
           /\ th' = [th EXCEPT ![p] =
                       IF r.ok
                       THEN [@ EXCEPT !.pc = "set_user", !.conn = r.conn, !.borrows = @ + 1,
                                      !.user_id = UserId(th[p].req.headers),
                                      !.tenant_id = TenantId(th[p].req.headers)]
                       ELSE LET e == [exc |-> r.exc, attempt |-> th[p].attempt]
                            IN  IF th[p].attempt < AcquireAttempts
                                THEN [@ EXCEPT !.attempt = @ + 1, !.borrows = @ + 1,
                                               !.last_error = e]
                                ELSE Raise([@ EXCEPT !.borrows = @ + 1, !.last_error = e,
                                                     !.cause = e], "Exception")]
    /\ UNCHANGED <<db_pool, db_config_cache, rows, nextId, started>>
    /\ UNCHANGED envVars

----------------------------------------------------------------------------
\* handler, lines 61-107.

\* lines 61-63: open the cursor, SET app.user_id.
SetUser(p) ==
    /\ th[p].pc = "set_user"
    /\ LET c == th[p].conn
           e == StmtError(c, conns, dbUp)
       IN  IF e = NONE
           THEN /\ conns' = [conns EXCEPT ![c].user = th[p].user_id]
                /\ th' = [th EXCEPT ![p].pc = "set_tenant", ![p].stmts = @ + 1]
           ELSE /\ UNCHANGED conns
                /\ th' = [th EXCEPT ![p] = Raise([@ EXCEPT !.stmts = @ + 1], e)]
    /\ UNCHANGED <<db_pool, db_config_cache, pools, rows, nextId, started>>
    /\ UNCHANGED envVars

\* lines 64-65: SET app.tenant_id, only for a truthy tenant id.
SetTenant(p) ==
    /\ th[p].pc = "set_tenant"
    /\ LET c == th[p].conn
           e == StmtError(c, conns, dbUp)
       IN  IF ~Truthy(th[p].tenant_id)
           THEN /\ UNCHANGED conns
                /\ th' = [th EXCEPT ![p].pc = "generate"]
           ELSE IF e = NONE
           THEN /\ conns' = [conns EXCEPT ![c].tenant = th[p].tenant_id]
                /\ th' = [th EXCEPT ![p].pc = "generate", ![p].stmts = @ + 1]
           ELSE /\ UNCHANGED conns
                /\ th' = [th EXCEPT ![p] = Raise([@ EXCEPT !.stmts = @ + 1], e)]
    /\ UNCHANGED <<db_pool, db_config_cache, pools, rows, nextId, started>>
    /\ UNCHANGED envVars

\* lines 68-78: a fresh uuid4 and the expiry, ttl_hours after utcnow().
Generate(p) ==
    /\ th[p].pc = "generate"
    /\ th' = [th EXCEPT ![p].pc = "insert", ![p].memory_id = nextId,
                        ![p].ttl_at = clock + th[p].ttl_hours * SecondsPerHour]
    /\ nextId' = nextId + 1
    /\ UNCHANGED <<db_pool, db_config_cache, pools, conns, rows, started>>
    /\ UNCHANGED envVars

\* lines 81-96: the INSERT, in the connection's open transaction.
Insert(p) ==
    /\ th[p].pc = "insert"
    /\ LET c   == th[p].conn
           e   == StmtError(c, conns, dbUp)
           row == MemoryRow(th[p])
       IN  IF e # NONE
           THEN /\ UNCHANGED conns
                /\ th' = [th EXCEPT ![p] = Raise([@ EXCEPT !.stmts = @ + 1], e)]
           ELSE IF ~InsertAllowed(row, conns[c])
           THEN /\ UNCHANGED conns
                /\ th' = [th EXCEPT ![p] = Raise([@ EXCEPT !.stmts = @ + 1], "InsufficientPrivilege")]
           ELSE /\ conns' = [conns EXCEPT ![c].pending = @ \cup {row}]
                /\ th' = [th EXCEPT ![p].pc = "commit", ![p].stmts = @ + 1]
    /\ UNCHANGED <<db_pool, db_config_cache, pools, rows, nextId, started>>
    /\ UNCHANGED envVars

\* line 98: conn.commit().
Commit(p) ==
    /\ th[p].pc = "commit"
    /\ LET c == th[p].conn
           e == StmtError(c, conns, dbUp)
       IN  IF e = NONE
           THEN /\ rows' = rows \cup conns[c].pending
                /\ conns' = [conns EXCEPT ![c].pending = {}]
                /\ th' = [th EXCEPT ![p].pc = "respond"]
           ELSE /\ UNCHANGED <<rows, conns>>
                /\ th' = [th EXCEPT ![p] = Raise(@, e)]
    /\ UNCHANGED <<db_pool, db_config_cache, pools, nextId, started>>
    /\ UNCHANGED envVars

\* lines 100-107: the 201 response, created_at read from the clock.
Respond(p) ==
    /\ th[p].pc = "respond"
    /\ th' = [th EXCEPT ![p].pc = "finally", ![p].status = 201, ![p].created_at = clock]
    /\ UNCHANGED <<db_pool, db_config_cache, pools, conns, rows, nextId, started>>
    /\ UNCHANGED envVars

\* Fault injection for C23: the connection handed back to its pool with
\* putconn, its session settings as the invocation left them.
ReleaseConnPut(c, P, C) ==
    LET r == PoolPutConn(C[c].pool, c, P, C)
    IN  [pools |-> r.pools, conns |-> r.conns]

\* What lines 133-137 do with the connection: conn.close().
ReleaseConn(c, P, C) ==
    [pools |-> P, conns |-> [C EXCEPT ![c] = CloseConn(@, "handler")]]

\* lines 131-137: the finally clause.
Finally(p) ==
    /\ th[p].pc = "finally"
    /\ LET c == th[p].conn
           r == ReleaseConn(c, pools, conns)
       IN  IF c # 0
           THEN pools' = r.pools /\ conns' = r.conns
           ELSE UNCHANGED <<pools, conns>>
    /\ th' = [th EXCEPT ![p].pc = "done"]
    /\ UNCHANGED <<db_pool, db_config_cache, rows, nextId, started>>
    /\ UNCHANGED envVars

\* The response has been delivered; the thread is free for the next invocation.
Return(p) ==
    /\ th[p].pc = "done"
    /\ th' = [th EXCEPT ![p] = IdleLocals]
    /\ UNCHANGED <<db_pool, db_config_cache, pools, conns, rows, nextId, started>>
    /\ UNCHANGED envVars

----------------------------------------------------------------------------
\* The environment.

TickSteps == {1, DB_CONFIG_CACHE_TTL}

Tick ==
    /\ ticks < MaxTicks
    /\ \E d \in TickSteps : clock' = clock + d
    /\ ticks' = ticks + 1
    /\ UNCHANGED <<secretUp, dbUp, secretVersion, faults, rotations>>
    /\ UNCHANGED dbVars
    /\ UNCHANGED procVars

SecretFlip ==
    /\ faults < MaxFaults
    /\ secretUp' = ~secretUp
    /\ faults' = faults + 1
    /\ UNCHANGED <<clock, dbUp, secretVersion, ticks, rotations>>
    /\ UNCHANGED dbVars
    /\ UNCHANGED procVars

DbFlip ==
    /\ faults < MaxFaults
    /\ dbUp' = ~dbUp
    /\ faults' = faults + 1
    /\ UNCHANGED <<clock, secretUp, secretVersion, ticks, rotations>>
    /\ UNCHANGED dbVars
    /\ UNCHANGED procVars

Rotate ==
    /\ rotations < MaxRotations
    /\ secretVersion' = secretVersion + 1
    /\ rotations' = rotations + 1
    /\ UNCHANGED <<clock, secretUp, dbUp, ticks, faults>>
    /\ UNCHANGED dbVars
    /\ UNCHANGED procVars

----------------------------------------------------------------------------
\* db_migration/handler.py, handler.

\* lines 38-50: the invocation arrives.
MigInvoke ==
    /\ mig.pc = "idle"
    /\ mig.run < MaxMigrations
    /\ mig' = [IdleMigration EXCEPT !.pc = "secret", !.run = mig.run + 1,
                                    !.succeeded = mig.succeeded,
                                    !.rejections = mig.rejections]
    /\ UNCHANGED <<schema, reports, stmt, rows>>
    /\ UNCHANGED <<upsertVars, clock, secretUp, dbUp, secretVersion, ticks, faults, rotations>>

\* The except clauses, lines 57-61 and 301-318: the response is built, then
\* the finally clause runs.
MigFail(m, exc, pgcode, text, at) ==
    [m EXCEPT !.status = 500, !.pc = "finally",
              !.failure = [exc |-> exc, pgcode |-> pgcode, text |-> text, at |-> at]]

\* lines 54-61: the secret is fetched, once.
MigSecret ==
    /\ mig.pc = "secret"
    /\ mig' = IF secretUp
              THEN [mig EXCEPT !.pc = "connect"]
              ELSE MigFail(mig, "SecretError", NONE, "ClientError", "secret")
    /\ UNCHANGED <<schema, reports, stmt, rows>>
    /\ UNCHANGED <<upsertVars, clock, secretUp, dbUp, secretVersion, ticks, faults, rotations>>

\* lines 64-86: the connection parameters are read from the secret, which
\* may lack the key 'host', and the connection is opened.
MigConnect ==
    /\ mig.pc = "connect"
    /\ \/ /\ mig.rejections < MaxRejections
          /\ mig' = MigFail([mig EXCEPT !.rejections = @ + 1],
                            "KeyError", NONE, "'host'", "connect")
       \/ /\ ~dbUp
          /\ mig' = MigFail(mig, "psycopg2.Error", NONE, "OperationalError", "connect")
       \/ /\ dbUp
          /\ mig' = [mig EXCEPT !.pc = "s1", !.conn = "open"]
    /\ UNCHANGED <<schema, reports, stmt, rows>>
    /\ UNCHANGED <<upsertVars, clock, secretUp, dbUp, secretVersion, ticks, faults, rotations>>

\* One cur.execute of the with block, answered with the SQLSTATE code, NONE
\* when the database accepted it.  A psycopg2 error raised by a lost
\* connection carries no SQLSTATE.
MigExecute(label, code, lost) ==
    /\ mig.pc = label
    /\ IF code = NONE /\ ~lost
       THEN /\ schema' = ApplySql(label, schema)
            /\ mig' = [mig EXCEPT !.pc = NextExecute(label, TRUE),
                                  !.log = Append(@, label)]
       ELSE /\ UNCHANGED schema
            /\ mig' = LET m == [mig EXCEPT !.log = Append(@, label),
                                           !.failed = @ \cup {label},
                                           !.rejections = IF code = "42501" THEN @ + 1 ELSE @]
                      IN  IF Swallowed(label)
                          THEN [m EXCEPT !.pc = NextExecute(label, FALSE)]
                          ELSE MigFail(m, "psycopg2.Error", code,
                                       IF lost THEN "OperationalError" ELSE code, label)
    /\ UNCHANGED <<reports, stmt, rows>>
    /\ UNCHANGED <<upsertVars, clock, secretUp, dbUp, secretVersion, ticks, faults, rotations>>

\* An execute of a fixed statement: the database is unreachable, or rejects
\* the statement for a reason of its own (42501, insufficient privilege), or
\* answers as the objects it holds make it.
MigStatement(label) ==
    \/ /\ ~dbUp
       /\ MigExecute(label, NONE, TRUE)
    \/ /\ dbUp
       /\ mig.rejections < MaxRejections
       /\ MigExecute(label, "42501", FALSE)
    \/ /\ dbUp
       /\ \E available \in BOOLEAN : MigExecute(label, SqlError(label, schema, available), FALSE)

\* Step 1, lines 89-94.
CreateSchemas == MigStatement("s1")

\* Step 2, lines 96-106.
CreateSessionFunctions == MigStatement("s2")

\* Step 3, lines 108-160.
CreateRegistry == MigStatement("s3")

\* Step 4, lines 162-174.
CreateIndexes == MigStatement("s4")

\* Step 5, lines 176-180: ENABLE ROW LEVEL SECURITY.
EnableRowSecurity == MigStatement("s5_enable")

\* Step 5, lines 182-186: DROP POLICY IF EXISTS, both policies.
DropPolicies == MigStatement("s5_drop")

\* Step 5, lines 188-204: CREATE POLICY, both policies.
CreatePolicies == MigStatement("s5_create")

\* Step 6, lines 206-209: CREATE EXTENSION, inside the try block.
InstallVector == MigStatement("s6_extension")

\* Step 6, lines 211-234: the embeddings table and its indexes.
CreateEmbeddings == MigStatement("s6_table")

\* Step 7, lines 236-242.
CreateViews == MigStatement("s7")

\* Step 8, lines 244-260: the function, DROP TRIGGER IF EXISTS, CREATE TRIGGER.
CreateTrigger == MigStatement("s8")

\* Step 9, lines 262-277.  The seed script is not part of the sources: it may
\* be absent, and when present the database may accept or reject it.  What
\* it writes to the registry is not modelled.
Seed ==
    \/ /\ mig.pc = "s9"
       /\ mig' = [mig EXCEPT !.pc = "close", !.log = Append(@, "s9")]
       /\ UNCHANGED <<schema, reports, stmt, rows>>
       /\ UNCHANGED <<upsertVars, clock, secretUp, dbUp, secretVersion, ticks, faults, rotations>>
    \/ MigStatement("s9")
    \/ /\ dbUp
       /\ MigExecute("s9", "23505", FALSE)

\* lines 279-299: the connection is closed and the 200 response built.
MigClose ==
    /\ mig.pc = "close"
    /\ mig' = [mig EXCEPT !.pc = "finally", !.conn = "closed", !.status = 200,
                          !.succeeded = @ + 1]
    /\ UNCHANGED <<schema, reports, stmt, rows>>
    /\ UNCHANGED <<upsertVars, clock, secretUp, dbUp, secretVersion, ticks, faults, rotations>>

\* lines 320-329: the finally clause closes a connection still open.
MigFinally ==
    /\ mig.pc = "finally"
    /\ mig' = [mig EXCEPT !.pc = "done", !.conn = IF @ = "open" THEN "closed" ELSE @]
    /\ UNCHANGED <<schema, reports, stmt, rows>>
    /\ UNCHANGED <<upsertVars, clock, secretUp, dbUp, secretVersion, ticks, faults, rotations>>

\* The response has been delivered.
MigReturn ==
    /\ mig.pc = "done"
    /\ mig' = [mig EXCEPT !.pc = "idle"]
    /\ reports' = IF mig.status = 500 THEN reports \cup {mig.failure} ELSE reports
    /\ UNCHANGED <<schema, stmt, rows>>
    /\ UNCHANGED <<upsertVars, clock, secretUp, dbUp, secretVersion, ticks, faults, rotations>>

MigStep ==
    \/ MigSecret \/ MigConnect
    \/ CreateSchemas \/ CreateSessionFunctions \/ CreateRegistry \/ CreateIndexes
    \/ EnableRowSecurity \/ DropPolicies \/ CreatePolicies
    \/ InstallVector \/ CreateEmbeddings \/ CreateViews \/ CreateTrigger \/ Seed
    \/ MigClose \/ MigFinally \/ MigReturn

----------------------------------------------------------------------------
\* SQL clients of the registry, each statement in a session of its own.

ClientDone(o) ==
    /\ rows' = o.after
    /\ stmt' = o
    /\ UNCHANGED <<schema, mig, reports>>
    /\ UNCHANGED <<upsertVars, clock, secretUp, dbUp, secretVersion, ticks, faults, rotations>>

ClientInsert(SS, Shapes) ==
    /\ dbUp
    /\ \E sess \in SS, shape \in Shapes, id \in 1..MaxRows :
         ClientDone(SqlInsert(ClientRow(id, shape), sess, schema, rows))

ClientUpdate(SS, Values) ==
    /\ dbUp
    /\ \E sess \in SS, value \in Values, id \in 1..MaxRows :
         ClientDone(SqlUpdate(id, value, sess, schema, rows))

ClientDelete(SS) ==
    /\ dbUp
    /\ \E sess \in SS, id \in 1..MaxRows :
         ClientDone(SqlDelete(id, sess, schema, rows))

ClientSelect(SS) ==
    /\ dbUp
    /\ \E sess \in SS :
         ClientDone(SqlSelect(sess, schema, rows))

----------------------------------------------------------------------------
\* Specifications.

Step(p) ==
    \/ PoolCheck(p) \/ ProbeGet(p) \/ ProbePut(p) \/ ProbeReturn(p)
    \/ ProbeCloseAll(p) \/ ProbeDrop(p)
    \/ ConfigCheck(p) \/ ConfigFetch(p)
    \/ PoolNew(p) \/ PoolReturn(p) \/ Acquire(p)
    \/ SetUser(p) \/ SetTenant(p) \/ Generate(p) \/ Insert(p) \/ Commit(p) \/ Respond(p)
    \/ Finally(p) \/ Return(p)

\* One handler thread serving invocations one after the other, with any
\* request, while the secret store and the database fail and recover.
Next ==
    \/ Invoke(1, Requests, MaxInvocations)
    \/ Step(1)
    \/ Tick \/ SecretFlip \/ DbFlip \/ Rotate

Spec == Init /\ [][Next]_vars

\* Two handler threads of one process serving invocations concurrently, every
\* request valid, the secret store and the database healthy.
ConcContent(p) == IF p = 1 THEN "hello" ELSE "world"

ConcRequests(p) == { PlainRequest(ConcContent(p), "x-user-id" :> "u1") }

NextConc ==
    \E p \in Procs :
        \/ Invoke(p, ConcRequests(p), MaxConcInvocations)
        \/ Step(p)

SpecConc == Init /\ [][NextConc]_vars

\* Two handler threads while the secret store and the database fail and
\* recover; a thread that can take a step of the handler takes it.
NextLive ==
    \/ \E p \in Procs :
          \/ Invoke(p, ConcRequests(p), MaxInvocations)
          \/ Step(p)
    \/ SecretFlip \/ DbFlip

SpecLive == Init /\ [][NextLive]_vars /\ \A p \in Procs : WF_vars(Step(p))

\* The migration handler invoked time after time against a database that
\* starts empty, fails and recovers, while SQL clients write to the registry.
MigSessions == { s \in Sessions : s.user = "u1" /\ s.tenant = NONE }

MigShapes ==
    { [owner_id |-> "u1", tenant_id |-> NONE, visibility |-> "private", description |-> "a"] }

NextMig ==
    \/ MigInvoke
    \/ MigStep
    \/ ClientInsert(MigSessions, MigShapes)
    \/ ClientUpdate(MigSessions, {"b"})
    \/ ClientDelete(MigSessions)
    \/ SecretFlip \/ DbFlip

SpecMig == InitWith({}) /\ [][NextMig]_vars

\* SQL clients of every identity writing to and reading from the registry of
\* a migrated database.
PolicyShapes ==
    { [owner_id |-> o, tenant_id |-> t, visibility |-> v, description |-> "a"] :
        o \in Users, t \in Tenants, v \in Visibilities }

\* The writers: the owner of the table, and one role under row security.
PolicyWriters ==
    { [user |-> NONE, tenant |-> NONE, rls |-> FALSE],
      [user |-> "u1", tenant |-> "t1", rls |-> TRUE] }

NextPolicy ==
    \/ ClientInsert(PolicyWriters, PolicyShapes)
    \/ ClientSelect(Sessions)

SpecPolicy == Init /\ [][NextPolicy]_vars

\* One handler thread serving valid requests one after the other, the secret
\* store and the database healthy throughout: a caller with a tenant and an
\* anonymous one, in any order.
SeqHeaders ==
    { ("x-user-id" :> "u1") @@ ("x-tenant-id" :> "t1"), <<>> }

SeqRequests == { PlainRequest("hello", h) : h \in SeqHeaders }

NextSeq ==
    \/ Invoke(1, SeqRequests, MaxSeqInvocations)
    \/ Step(1)

SpecSeq == Init /\ [][NextSeq]_vars

\* One thread serving valid requests one after the other on healthy services,
\* and a second thread that takes an invocation once the first has begun as
\* many as the pool has connections.
NextBusy ==
    \/ Invoke(1, ConcRequests(1), MaxBusyInvocations)
    \/ started >= MaxConn /\ Invoke(2, ConcRequests(2), MaxBusyInvocations)
    \/ \E p \in Procs : Step(p)

SpecBusy == Init /\ [][NextBusy]_vars

----------------------------------------------------------------------------
\* Vocabulary of the properties, read off the request and the counters of a
\* finished invocation.

Finished(p) == th[p].pc = "done"

\* The capability flag the request carries, 'off' when it carries none.
Flag(req) ==
    IF "x-logline-memory" \in DOMAIN req.headers THEN req.headers["x-logline-memory"]
    ELSE IF "X-LogLine-Memory" \in DOMAIN req.headers THEN req.headers["X-LogLine-Memory"]
    ELSE "off"

\* The request supplies field k in a JSON object body.
Supplies(req, k) == req.body = "object" /\ k \in DOMAIN req.fields

\* The request carries no content, or an empty one.
NoContent(req) ==
    \/ req.body \in {"missing", "null"}
    \/ req.body = "object" /\ ~Supplies(req, "content")
    \/ Supplies(req, "content") /\ req.fields["content"] = ""

\* The invocation attempted nothing against the secret store, the pool or
\* the database.
NoDatabaseAccess(L) ==
    /\ L.fetches = 0 /\ L.probes = 0 /\ L.builds = 0 /\ L.borrows = 0 /\ L.stmts = 0
    /\ L.conn = 0

\* The credential cache, the pool and the ledger are as the invocation found them.
SharedStateUntouched(L) ==
    /\ db_pool = L.pre.db_pool
    /\ db_config_cache = L.pre.cache
    /\ pools = L.pre.pools
    /\ rows = L.pre.rows

CheckedOut(P, pid) == IF pid = 0 THEN 0 ELSE Cardinality(P[pid].used)

\* C1: a finished invocation that obtained a connection has returned it to
\* its pool: the connection was not closed by the handler, it is no longer
\* checked out, and the pool counts as many checked-out connections as when
\* the invocation began.
C1_ConnectionReturned ==
    \A p \in Procs :
        LET L == th[p]
        IN  Finished(p) /\ L.conn # 0 =>
              /\ conns[L.conn].closed_by # "handler"
              /\ L.conn \notin pools[conns[L.conn].pool].used
              /\ (L.pool_obj = L.pre.db_pool =>
                    CheckedOut(pools, L.pool_obj) = CheckedOut(L.pre.pools, L.pool_obj))

\* C2: an invocation that starts without a pool and whose three secret-store
\* fetches all fail answers 503 after exactly three borrow attempts and
\* three fetch attempts.
C2_CredentialOutageIs503 ==
    \A p \in Procs :
        LET L == th[p]
        IN  Finished(p) /\ L.pre.db_pool = 0 /\ L.fetches = FetchAttempts /\ L.config = 0 =>
              L.status = 503 /\ L.borrows = AcquireAttempts

\* C3: an invocation that fails in the connection layer -- the pool cannot
\* be built, or all three borrow attempts fail -- answers 503.
C3_ConnectionFailureIs503 ==
    \A p \in Procs :
        LET L == th[p]
        IN  Finished(p) /\ L.conn = 0
              /\ (L.borrows = AcquireAttempts \/ (L.builds = 1 /\ L.borrows = 0)) =>
              L.status = 503

C5_NoContentIs400 ==
    \A p \in Procs :
        LET L == th[p]
        IN  Finished(p) /\ Flag(L.req) # "off" /\ NoContent(L.req) =>
              L.status = 400 /\ NoDatabaseAccess(L) /\ SharedStateUntouched(L)

\* The caller's user id, 'anonymous' when the request names none.
Caller(req) ==
    IF "x-user-id" \in DOMAIN req.headers THEN req.headers["x-user-id"]
    ELSE IF "X-User-Id" \in DOMAIN req.headers THEN req.headers["X-User-Id"]
    ELSE "anonymous"

RowsOf(L) == { r \in rows : r.id = L.memory_id }

\* C6: a 201 response means exactly one new row was committed, with seq 0,
\* entity type memory, status active, the caller as owner and an id no
\* earlier row has; any other response means no row of the invocation is
\* committed.
C6_CreatedIffCommitted ==
    \A p \in Procs :
        LET L == th[p]
        IN  Finished(p) =>
              IF L.status = 201
              THEN /\ Cardinality(rows \ L.pre.rows) = 1
                   /\ Cardinality(RowsOf(L)) = 1
                   /\ \A r \in RowsOf(L) :
                        /\ r \notin L.pre.rows
                        /\ r.seq = 0 /\ r.entity_type = "memory" /\ r.status = "active"
                        /\ r.owner_id = Caller(L.req)
                   /\ \A r \in L.pre.rows : r.id # L.memory_id
              ELSE /\ rows = L.pre.rows
                   /\ RowsOf(L) = {}
                   /\ (L.conn # 0 => conns[L.conn].pending = {})

C6_Witness ==
    \E p \in Procs :
        /\ Finished(p) /\ th[p].status = 201 /\ th[p].pre.rows # {}
        /\ \E r \in RowsOf(th[p]) : r.owner_id = "u1"

\* C7: without a supplied layer the layer is session for the session-only
\* flag and persistent for any other; without a supplied ttl_hours it is 24
\* for the session layer and 168 otherwise; a request under flag 'on' that
\* supplies neither creates a persistent entry expiring after 168 hours.
C7_Defaults ==
    \A p \in Procs :
        LET L == th[p]
        IN  L.pc # "idle" /\ L.status \in {0, 201, 400} /\ L.error = NONE =>
              /\ ~Supplies(L.req, "layer") =>
                    L.layer = IF Flag(L.req) = "session-only" THEN "session" ELSE "persistent"
              /\ ~Supplies(L.req, "ttl_hours") =>
                    L.ttl_hours = IF L.layer = "session" THEN 24 ELSE 168
              /\ ( /\ Finished(p) /\ L.status = 201 /\ Flag(L.req) = "on"
                   /\ ~Supplies(L.req, "layer") /\ ~Supplies(L.req, "ttl_hours") ) =>
                    \E r \in rows :
                        /\ r.id = L.memory_id
                        /\ r.metadata.layer = "persistent"
                        /\ r.metadata.ttl_at = L.ttl_at
                        /\ L.ttl_hours = 168

C7_Witness ==
    \E p \in Procs :
        /\ Finished(p) /\ th[p].status = 201 /\ Flag(th[p].req) = "on"
        /\ ~Supplies(th[p].req, "layer") /\ ~Supplies(th[p].req, "ttl_hours")
        /\ \E r \in rows : r.id = th[p].memory_id /\ r.metadata.layer = "persistent"

\* C8: concurrent invocations with valid input against a healthy store and
\* database all answer 201, and their entries have seq 0 and distinct ids.
C8_ConcurrentBothSucceed ==
    /\ \A p \in Procs :
         Finished(p) =>
            /\ th[p].status = 201
            /\ \E r \in rows : r.id = th[p].memory_id /\ r.seq = 0
    /\ \A r1, r2 \in rows : r1.id = r2.id => r1 = r2

\* C9: get_db_config called while the cache holds a record younger than 900 s
\* returns that record without a fetch; with no record, or one aged 900 s or
\* more, it goes to the secret store, and every pass of its loop is a fetch.
C9_CacheHitNoFetch ==
    [][\A p \in Procs :
         /\ (th[p].pc = "cfg_check" /\ th'[p].pc # "cfg_check") =>
               IF db_config_cache.config # 0 /\ clock - db_config_cache.timestamp < 900
               THEN /\ th'[p].pc = "pool_new"
                    /\ th'[p].config = db_config_cache.config
                    /\ th'[p].fetches = 0
                    /\ db_config_cache' = db_config_cache
               ELSE th'[p].pc = "cfg_fetch"
         /\ (th[p].pc = "cfg_fetch" /\ th'[p] # th[p]) => th'[p].fetches = th[p].fetches + 1
      ]_vars

\* A hit on a record of a secret that has since been rotated.
C9_Witness ==
    \E p \in Procs :
        /\ th[p].pc = "pool_new" /\ th[p].fetches = 0
        /\ th[p].config = db_config_cache.config
        /\ th[p].config # secretVersion

\* C10, as claimed: on a miss get_db_config fetches at most three times,
\* stops at the first success, caches the fetched record stamped with the
\* time of that fetch, and returns it.
C10_StampedAtFetch ==
    \A p \in Procs :
        LET L == th[p]
        IN  L.pc = "pool_new" /\ L.fetches > 0 =>
              /\ L.fetches <= 3 /\ L.fetches = L.attempt
              /\ db_config_cache = [config |-> L.config, timestamp |-> L.fetched_at]

\* C10, amended: ... caches the fetched record stamped with the time the
\* call read when it began, which is never later than the fetch, and
\* returns it.
C10_StampedAtEntry ==
    \A p \in Procs :
        LET L == th[p]
        IN  L.pc = "pool_new" /\ L.fetches > 0 =>
              /\ L.fetches <= 3 /\ L.fetches = L.attempt
              /\ db_config_cache = [config |-> L.config, timestamp |-> L.now]
              /\ L.now <= L.fetched_at
              /\ L.config # 0

\* A third fetch that succeeded after the clock had moved on.
C10_Witness ==
    \E p \in Procs :
        /\ th[p].pc = "pool_new" /\ th[p].fetches = 3
        /\ th[p].now < th[p].fetched_at
        /\ db_config_cache.timestamp = th[p].now

\* The invocation's call of get_db_config made three fetches and none succeeded.
FetchesExhausted(L) ==
    L.pc \in {"finally", "done"} /\ L.fetches = FetchAttempts /\ L.config = 0

\* C11: when all three fetches of one get_db_config call fail, the call
\* raises an error that carries the error of the third fetch, and the
\* credential cache, record and timestamp, is what the call found: no
\* failure is cached and a cached record is not altered.
C11_FailureNotCached ==
    \A p \in Procs :
        LET L == th[p]
        IN  FetchesExhausted(L) =>
              /\ L.error = "Exception"
              /\ L.cause = [exc |-> "ClientError", attempt |-> FetchAttempts]
              /\ db_config_cache = L.cache_in
              /\ L.conn = 0 /\ L.builds = 0

\* Three failed fetches over an expired record of an earlier invocation.
C11_Witness ==
    \E p \in Procs :
        /\ FetchesExhausted(th[p])
        /\ th[p].cache_in.config # 0
        /\ db_config_cache = th[p].cache_in

----------------------------------------------------------------------------
\* Vocabulary of the migration properties.

\* The schema state the specification names: all but what step 6 adds.
Core(S) == S \ OptionalSchema

\* The steps whose failure the specification calls fatal, and the others it
\* names.
FatalSteps == {1, 2, 3, 4, 5, 8}
BestEffortSteps == {6, 9}

\* The steps the invocation has entered, in the order it entered them.
StepsRun == [i \in DOMAIN mig.log |-> StepOf[mig.log[i]]]

AllSteps == { StepOf[l] : l \in DOMAIN StepOf }

\* C12: whatever earlier invocations did to the database, failures at fatal
\* steps included, when an invocation of the migration has answered 200 the
\* schemas, accessor functions, table, indexes, row security with exactly
\* the two policies, view and append-only trigger are those of one
\* successful run on an empty database, first run or later one.
C12_MigrationConverges ==
    mig.status = 200 => Core(schema) = CoreSchema

\* A run that succeeds on the database an earlier run left without policies.
C12_Witness ==
    /\ mig.status = 200 /\ mig.run = 2
    /\ \E f \in reports : f.at = "s5_create"
    /\ Core(schema) = CoreSchema

\* C13: the steps are entered in the order 1..9; a step whose failure is
\* fatal (1-5, 8) ends the run at that step with a 500; a run in which only
\* steps 6 and 9 failed has entered every step and answers 200, and step 7
\* is entered after a failure of step 6.
C13_StepOrder ==
    /\ \A i \in DOMAIN mig.log :
         /\ i = 1 => StepsRun[i] = 1
         /\ i > 1 => StepsRun[i] \in {StepsRun[i - 1], StepsRun[i - 1] + 1}
         /\ \A j \in DOMAIN mig.log : j # i => mig.log[j] # mig.log[i]
    /\ \A l \in mig.failed :
         StepOf[l] \in FatalSteps =>
            /\ mig.status = 500
            /\ mig.log[Len(mig.log)] = l
            /\ mig.pc \in {"finally", "done", "idle"}
    /\ \A l \in mig.failed :
         StepOf[l] = 6 /\ mig.pc \notin {"s6_table", "s7"} => 7 \in { StepsRun[i] : i \in DOMAIN mig.log }
    /\ ( /\ mig.pc \in {"finally", "done"}
         /\ mig.log # <<>>
         /\ \A l \in mig.failed : StepOf[l] \in BestEffortSteps ) =>
            /\ mig.status = 200
            /\ { StepsRun[i] : i \in DOMAIN mig.log } = AllSteps
    /\ mig.status = 200 =>
            /\ \A l \in mig.failed : StepOf[l] \in BestEffortSteps
            /\ { StepsRun[i] : i \in DOMAIN mig.log } = AllSteps

\* A 200 after both best-effort steps failed.
C13_Witness ==
    /\ mig.pc = "done" /\ mig.status = 200
    /\ "s6_table" \in mig.failed /\ "s9" \in mig.failed

\* What a failure response says, its timestamp aside.
Identification(response) ==
    [k \in DOMAIN response.body \ {"timestamp"} |-> response.body[k]]

\* C14: the 500 responses of two runs that failed at different fatal steps
\* differ in more than their timestamp, under every deployment label.
C14_FailureNamesStep ==
    \A f, g \in reports : \A env \in Environments :
        ( /\ f.at \in DOMAIN StepOf /\ g.at \in DOMAIN StepOf
          /\ StepOf[f.at] \in FatalSteps /\ StepOf[g.at] \in FatalSteps
          /\ StepOf[f.at] # StepOf[g.at] ) =>
            Identification(MigrationFailure(f, env, clock))
                # Identification(MigrationFailure(g, env, clock))

\* Some invocation of the migration has answered 200.
Migrated == mig.succeeded > 0

PolicyRead == stmt.op = "SELECT" /\ stmt.sess.rls /\ stmt.raised = NONE

\* C16, as claimed: a private row is returned to no reader but its owner, a
\* public row to every reader, a tenant row only to a reader whose tenant
\* is the row's.
C16_TenantRowsByTenantOnly ==
    PolicyRead =>
        \A r \in stmt.before :
            /\ (r.visibility = "private" /\ r.owner_id # stmt.sess.user) => r \notin stmt.returned
            /\ r.visibility = "public" => r \in stmt.returned
            /\ (r.visibility = "tenant" /\ r \in stmt.returned) => r.tenant_id = stmt.sess.tenant

\* C16, amended: a private row is returned to its owner and to no other
\* reader, a public row to every reader, a tenant row to its owner and to
\* the readers whose tenant is the row's, and to no other reader.  An unset
\* identity is the identity of a row whose owner or tenant is unset.
C16_SelectPolicy ==
    PolicyRead =>
        /\ stmt.returned \subseteq stmt.before
        /\ \A r \in stmt.before :
            /\ r.visibility = "private" => (r \in stmt.returned <=> r.owner_id = stmt.sess.user)
            /\ r.visibility = "public" => r \in stmt.returned
            /\ r.visibility = "tenant" =>
                 (r \in stmt.returned <=>
                    (r.tenant_id = stmt.sess.tenant \/ r.owner_id = stmt.sess.user))

\* A tenant row read by a reader of another user and the same tenant.
C16_Witness ==
    /\ PolicyRead
    /\ \E r \in stmt.returned :
         /\ r.visibility = "tenant" /\ r.tenant_id = "t1" /\ stmt.sess.tenant = "t1"
         /\ r.owner_id = "u1" /\ stmt.sess.user = "u2"

----------------------------------------------------------------------------
\* The messages of the memory handler that do not vary with the failure.
StableMessages ==
    {"Memory is disabled", "content is required", "Service temporarily unavailable",
     "Memory upsert failed"}

\* C17: every error response of the memory handler holds a stable message
\* and a timestamp, and the text of the exception behind it only when the
\* deployment is not labelled production.
C17_ErrorBodies ==
    \A p \in Procs : \A env \in Environments :
        LET L == th[p]
            body == ResponseBody(L, env)
        IN  Finished(p) /\ L.status >= 400 =>
              /\ "error" \in DOMAIN body /\ body["error"] \in StableMessages
              /\ "timestamp" \in DOMAIN body
              /\ env = "production" => \A k \in DOMAIN body : body[k] # L.error

\* The connections pool pid has opened.
ConnsOf(pid) == { c \in DOMAIN conns : conns[c].pool = pid }

\* The pool has been closed wholesale.
TornDown(pid) ==
    pools[pid].closed /\ \A c \in ConnsOf(pid) : conns[c].state = "closed"

\* C18: get_db_pool called while a pool is held returns that pool exactly
\* when the probe succeeded, and then the pool counts as many checked-out
\* connections as before; when the probe failed the old pool is closed with
\* all its connections and a new pool of one idle connection, built from
\* the credentials, is held and returned; when building it fails the error
\* leaves the handler and no pool is held.  No pool ever has more than five
\* connections.
C18_ProbeReuseOrRebuild ==
    /\ \A p \in Procs :
        LET L == th[p]
            old == L.pre.db_pool
        IN  old # 0 =>
              /\ (L.pc = "acquire" /\ L.borrows = 0) =>
                    /\ L.probed \in {"ok", "failed"}
                    /\ L.pool_obj = old <=> L.probed = "ok"
                    /\ L.probed = "ok" =>
                          /\ db_pool = old /\ ~pools[old].closed
                          /\ CheckedOut(pools, old) = CheckedOut(L.pre.pools, old)
                          /\ L.builds = 0 /\ L.fetches = 0
                    /\ L.probed = "failed" =>
                          /\ TornDown(old)
                          /\ L.pool_obj = db_pool /\ db_pool = Len(L.pre.pools) + 1
                          /\ L.builds = 1 /\ L.config # 0
                          /\ ~pools[db_pool].closed /\ pools[db_pool].used = {}
                          /\ Cardinality(pools[db_pool].idle) = MinConn
              /\ (L.pc \in {"finally", "done"} /\ L.probes = 1 /\ L.pool_obj = 0) =>
                    /\ L.probed = "failed"
                    /\ TornDown(old)
                    /\ db_pool = 0
                    /\ L.error \in {"Exception", "OperationalError"}
                    /\ L.conn = 0
    /\ \A pid \in DOMAIN pools :
        ~pools[pid].closed => Cardinality(pools[pid].idle \cup pools[pid].used) <= MaxConn

\* A pool rebuilt after the probe of the old one failed.
C18_Witness ==
    \E p \in Procs :
        /\ th[p].pc = "acquire" /\ th[p].borrows = 0
        /\ th[p].pre.db_pool # 0 /\ th[p].probed = "failed"
        /\ db_pool # th[p].pre.db_pool /\ TornDown(th[p].pre.db_pool)

\* What an invocation may attempt.
AttemptsBounded(L) ==
    /\ L.probes <= 1 /\ L.builds <= 1
    /\ L.fetches <= FetchAttempts /\ L.borrows <= AcquireAttempts
    /\ L.conn # 0 => L.borrows = L.attempt /\ conns[L.conn].pool = L.pool_obj
    /\ (L.pc \in {"finally", "done"} /\ L.conn = 0 /\ L.borrows = AcquireAttempts) =>
          L.status >= 500
    /\ (L.pc \in {"finally", "done"} /\ L.config = 0 /\ L.fetches = FetchAttempts) =>
          L.status >= 500

\* C19: every invocation ends with a response whatever the secret store and
\* the database do; it probes at most one pool and builds at most one,
\* fetches the secret at most three times and borrows at most three times,
\* keeps the connection of its first successful borrow, and answers with a
\* failure once its attempts are used up.
C19_Terminates ==
    /\ [](\A p \in Procs : AttemptsBounded(th[p]))
    /\ \A p \in Procs : (th[p].pc # "idle") ~> (th[p].pc = "done" /\ th[p].status # 0)

\* An invocation that answered after three failed borrows.
C19_Witness ==
    \E p \in Procs :
        /\ th[p].pc = "done" /\ th[p].borrows = AcquireAttempts /\ th[p].conn = 0
        /\ th[p].status = 500

\* C20: in a 201 response ttl_at is created_at plus ttl_hours hours, 168
\* when ttl_hours is not supplied under the persistent layer, and it is the
\* ttl_at of the row's metadata.
C20_TtlAfterCreatedAt ==
    \A p \in Procs :
        LET L == th[p]
        IN  Finished(p) /\ L.status = 201 =>
              /\ L.ttl_at = L.created_at + L.ttl_hours * SecondsPerHour
              /\ ResponseBody(L, NONE)["ttl_at"] = L.ttl_at
              /\ \A r \in RowsOf(L) : r.metadata.ttl_at = L.ttl_at

----------------------------------------------------------------------------
\* Pool exhaustion across invocations.

\* The pool the invocation found, with every one of its MaxConn connections
\* checked out and none waiting.
FoundExhausted(L) ==
    /\ L.pre.db_pool # 0
    /\ L.pre.pools[L.pre.db_pool].idle = {}
    /\ Cardinality(L.pre.pools[L.pre.db_pool].used) = MaxConn

\* C21: with invocations served one after the other, valid input and healthy
\* services, every invocation obtains a connection at its first borrow and
\* returns 201, however many connections earlier invocations left checked
\* out of the pool.
C21_NoExhaustion ==
    \A p \in Procs :
        Finished(p) =>
            /\ th[p].status = 201
            /\ th[p].conn # 0
            /\ th[p].borrows = 1

\* An invocation that found the pool with all its connections checked out by
\* earlier invocations, and returned 201 on the pool built in its place.
C21_Witness ==
    \E p \in Procs :
        /\ Finished(p)
        /\ FoundExhausted(th[p])
        /\ th[p].probed = "failed"
        /\ th[p].status = 201
        /\ th[p].pool_obj # th[p].pre.db_pool
        /\ th[p].inv = MaxSeqInvocations

----------------------------------------------------------------------------
\* Ownership of a borrowed connection.

\* The invocation holds a connection it has borrowed and not yet released
\* (lines 54-131).
InFlight(p) ==
    /\ th[p].conn # 0
    /\ th[p].pc \in {"set_user", "set_tenant", "generate", "insert", "commit", "respond",
                     "finally"}

\* C22: with concurrent invocations in one process, the connection an
\* in-flight invocation has borrowed stays open until that invocation's own
\* release: no teardown of the pool by another invocation closes it.
C22_InFlightNotClosedByOthers ==
    \A p \in Procs :
        InFlight(p) => conns[th[p].conn].state = "open"

----------------------------------------------------------------------------
\* The identity a connection carries.

\* What app.current_tenant_id() must yield for the invocation: its tenant id,
\* and NULL when the request supplies none.
OwnTenant(L) == IF Truthy(L.tenant_id) THEN L.tenant_id ELSE NONE

\* The session settings of the invocation's connection are the invocation's.
OwnIdentity(L) ==
    /\ conns[L.conn].user = L.user_id
    /\ conns[L.conn].tenant = OwnTenant(L)

\* A connection of the invocation's pool on which an earlier invocation bound
\* a user id and a tenant id.
EarlierBinding(L) ==
    \E c \in DOMAIN conns :
        /\ c # L.conn
        /\ conns[c].pool = L.pool_obj
        /\ conns[c].user # NONE
        /\ conns[c].tenant # NONE

\* C23: across any sequence of invocations in one process, a connection is
\* borrowed with no identity bound into it, and from the INSERT to the commit
\* its user and tenant settings are those of the current invocation, the
\* tenant unset when the request supplies none.
C23_OwnIdentityAtInsert ==
    \A p \in Procs :
        /\ th[p].pc = "set_user" =>
              conns[th[p].conn].user = NONE /\ conns[th[p].conn].tenant = NONE
        /\ th[p].pc \in {"insert", "commit"} => OwnIdentity(th[p])

\* An anonymous invocation without a tenant id has inserted on a pool on which
\* an earlier invocation bound its user and its tenant.
C23_Witness ==
    \E p \in Procs :
        /\ th[p].pc = "commit"
        /\ th[p].tenant_id = NONE
        /\ th[p].user_id = "anonymous"
        /\ conns[th[p].conn].pending # {}
        /\ EarlierBinding(th[p])

====
